---------------------------- MODULE Spec2Model ----------------------------
(***************************************************************************)
(* A model of pyomo.contrib.pynumero.interfaces.external_pyomo_model:      *)
(* the ExternalPyomoModel grey-box facade and get_hessian_of_constraint.   *)
(*                                                                         *)
(* Equations are polynomials of degree <= 2 with integer coefficients over *)
(* the variable vector v = input_vars \o external_vars, so that values,    *)
(* Jacobian blocks and Hessian blocks are exact.  A linear solve with jgy  *)
(* is exact rational arithmetic: a matrix over a common denominator.       *)
(* Variables are taken to be unfixed at construction.                      *)
(***************************************************************************)
EXTENDS Integers, Sequences, FiniteSets, TLC

\* Largest value a variable takes in the model; values range over 0..MaxVal.
MaxVal == 2

Vals == 0..MaxVal

\* values the variables hold at construction
InitVals == {0, 1}

-----------------------------------------------------------------------------
(* Dense matrices as sequences of rows.                                    *)

RECURSIVE SumTo(_, _)
SumTo(f, n) == IF n = 0 THEN 0 ELSE f[n] + SumTo(f, n - 1)

Rows(A) == Len(A)
Cols(A) == IF Len(A) = 0 THEN 0 ELSE Len(A[1])

\* the list f[1], ..., f[n]
List(f, n) == SubSeq(f, 1, n)

Zeros(m, n) == List([i \in 1..m |-> List([j \in 1..n |-> 0], n)], m)

Transpose(A) ==
    List([j \in 1..Cols(A) |->
            List([i \in 1..Rows(A) |-> A[i][j]], Rows(A))], Cols(A))

Scale(c, A) ==
    List([i \in 1..Rows(A) |->
            List([j \in 1..Cols(A) |-> c * A[i][j]], Cols(A))], Rows(A))

MatAdd(A, B) ==
    List([i \in 1..Rows(A) |->
            List([j \in 1..Cols(A) |-> A[i][j] + B[i][j]], Cols(A))], Rows(A))

\* A.dot(B); defined when Cols(A) = Rows(B)
MatMul(A, B) ==
    List([i \in 1..Rows(A) |->
            List([j \in 1..Cols(B) |->
                    SumTo([k \in 1..Cols(A) |-> A[i][k] * B[k][j]], Cols(A))],
                 Cols(B))], Rows(A))

Conformable(A, B) == Cols(A) = Rows(B)
SameShape(A, B) == Rows(A) = Rows(B) /\ Cols(A) = Cols(B)

\* A without row i and column j
Minor(A, i, j) ==
    List([r \in 1..(Rows(A) - 1) |->
            List([c \in 1..(Cols(A) - 1) |->
                    A[IF r < i THEN r ELSE r + 1][IF c < j THEN c ELSE c + 1]],
                 Cols(A) - 1)], Rows(A) - 1)

Sign(k) == IF k % 2 = 0 THEN 1 ELSE -1

RECURSIVE Det(_)
Det(A) ==
    IF Rows(A) = 0 THEN 1
    ELSE IF Rows(A) = 1 THEN A[1][1]
    ELSE SumTo([j \in 1..Cols(A) |->
                    Sign(1 + j) * A[1][j] * Det(Minor(A, 1, j))], Cols(A))

\* adjugate: A * Adj(A) = Det(A) * I
Adj(A) ==
    List([i \in 1..Rows(A) |->
            List([j \in 1..Cols(A) |-> Sign(i + j) * Det(Minor(A, j, i))],
                 Cols(A))], Rows(A))

-----------------------------------------------------------------------------
(* Equations: c + sum lin[i]*v[i] + sum quad[i][j]*v[i]*v[j] == 0          *)

Eq(c, lin, quad) == [c |-> c, lin |-> lin, quad |-> quad]

\* value of the body of the equation at v
EqValue(eq, v) ==
    LET n == Len(v)
    IN  eq.c
        + SumTo([i \in 1..n |-> eq.lin[i] * v[i]], n)
        + SumTo([i \in 1..n |->
                    SumTo([j \in 1..n |-> eq.quad[i][j] * v[i] * v[j]], n)], n)

\* first derivative of the equation with respect to variable i at v
EqGrad(eq, v, i) ==
    LET n == Len(v)
    IN  eq.lin[i]
        + SumTo([j \in 1..n |-> (eq.quad[i][j] + eq.quad[j][i]) * v[j]], n)

\* second derivative with respect to variables i and j
EqHess(eq, i, j) == eq.quad[i][j] + eq.quad[j][i]

\* the variables that occur in the expression of the equation
identify_variables(eq) ==
    {i \in 1..Len(eq.lin) :
        \/ eq.lin[i] # 0
        \/ \E j \in 1..Len(eq.lin) : eq.quad[i][j] # 0 \/ eq.quad[j][i] # 0}

-----------------------------------------------------------------------------
(* Constructor arguments: a catalogue of small systems.                    *)
(* Each gives input_vars (nx of them), external_vars (ny of them),         *)
(* residual_cons and external_cons over v = x \o y.                        *)

System(nx, ny, f, g) ==
    [nx |-> nx, ny |-> ny, residual_cons |-> f, external_cons |-> g]

\* f: x*y - 1 = 0, g: y - x = 0
Scenario ==
    System(1, 1,
        << Eq(-1, <<0, 0>>, << <<0, 1>>, <<0, 0>> >>) >>,
        << Eq(0, <<-1, 1>>, Zeros(2, 2)) >>)

\* f1: x + y = 0, f2: y*y - x = 0, g: x*y - x = 0 (jgy = x)
TwoResiduals ==
    System(1, 1,
        << Eq(0, <<1, 1>>, Zeros(2, 2)),
           Eq(0, <<-1, 0>>, << <<0, 0>>, <<0, 1>> >>) >>,
        << Eq(0, <<-1, 0>>, << <<0, 1>>, <<0, 0>> >>) >>)

\* f: y1*y2 - x = 0, g1 = g2: y1 + y2 - x = 0 (two identical equations)
IdenticalExternal ==
    System(1, 2,
        << Eq(0, <<-1, 0, 0>>, << <<0, 0, 0>>, <<0, 0, 1>>, <<0, 0, 0>> >>) >>,
        << Eq(0, <<-1, 1, 1>>, Zeros(3, 3)),
           Eq(0, <<-1, 1, 1>>, Zeros(3, 3)) >>)

\* f: x1*y + x2 = 0, g: y - x1*x2 = 0
TwoInputs ==
    System(2, 1,
        << Eq(0, <<0, 1, 0>>, << <<0, 0, 1>>, <<0, 0, 0>>, <<0, 0, 0>> >>) >>,
        << Eq(0, <<0, 0, 1>>, << <<0, -1, 0>>, <<0, 0, 0>>, <<0, 0, 0>> >>) >>)

\* f: x2*y + x1 - 1 = 0, g: y - x1 = 0 (x2 occurs in no external equation)
InputOnlyInResidual ==
    System(2, 1,
        << Eq(-1, <<1, 0, 0>>, << <<0, 0, 0>>, <<0, 0, 1>>, <<0, 0, 0>> >>) >>,
        << Eq(0, <<-1, 0, 1>>, Zeros(3, 3)) >>)

\* f: y1*y2 - 1 = 0, g1: y1 - x1 = 0, g2: y2 - x2*y1 = 0
TwoByTwo ==
    System(2, 2,
        << Eq(-1, <<0, 0, 0, 0>>,
              << <<0, 0, 0, 0>>, <<0, 0, 0, 0>>, <<0, 0, 0, 1>>, <<0, 0, 0, 0>> >>) >>,
        << Eq(0, <<-1, 0, 1, 0>>, Zeros(4, 4)),
           Eq(0, <<0, 0, 0, 1>>,
              << <<0, 0, 0, 0>>, <<0, 0, -1, 0>>, <<0, 0, 0, 0>>, <<0, 0, 0, 0>> >>) >>)

\* two external variables, one external equation g: y1 + y2 - x = 0
NonSquare ==
    System(1, 2,
        << Eq(0, <<-1, 0, 0>>, << <<0, 0, 0>>, <<0, 0, 1>>, <<0, 0, 0>> >>) >>,
        << Eq(0, <<-1, 1, 1>>, Zeros(3, 3)) >>)

Systems ==
    << Scenario, TwoResiduals, IdenticalExternal, TwoInputs,
       InputOnlyInResidual, TwoByTwo, NonSquare >>

-----------------------------------------------------------------------------
VARIABLES
    sys,          \* index in Systems of the constructor arguments
    constructed,  \* __init__ returned normally
    xval,         \* current values of input_vars, in constructor order
    yval,         \* current values of external_vars, in constructor order
    nlp,          \* self._nlp: the values PyomoNLP read when it was built
    ret,          \* outcome of the most recent call on the instance
    jacSplu,      \* factorizations done by the call before the most recent
                  \* one, if that was the Jacobian query; 0 otherwise
    everSet,      \* some set_input_values has returned normally
    lastSet,      \* the most recent set_input_values returned normally
    xfixed,       \* whether each of input_vars is fixed, in constructor order
    fresh,        \* no set_input_values has begun since self._nlp was built
    hcall,        \* a call of get_hessian_of_constraint: arguments and result
    LB,           \* _GDPoptAlgorithm.LB
    UB,           \* _GDPoptAlgorithm.UB
    unbounded,    \* _GDPoptAlgorithm.unbounded
    objective_sense,        \* minimize or maximize
    termination_condition,  \* pyomo_results.solver.termination_condition
    gret,         \* the most recent call on the algorithm object
    iteration,    \* _GDPoptAlgorithm.iteration
    stage,        \* where solve(model, config) is
    problem,      \* pyomo_results.problem: the counts and the sense of the model
    util_block,   \* the original model holds the utility block
    incumbent,    \* incumbent_boolean_soln, incumbent_continuous_soln
    model_values, \* the values of the variables of the original model
    sret          \* what the current solve has done

facadeVars ==
    <<sys, constructed, xval, yval, nlp, ret, jacSplu, everSet, lastSet,
      xfixed, fresh>>

gdpVars ==
    <<LB, UB, unbounded, objective_sense, termination_condition, gret,
      iteration>>

solveVars == <<stage, problem, util_block, incumbent, model_values, sret>>

vars == <<facadeVars, hcall, gdpVars, solveVars>>

model == Systems[sys]
input_vars == List([i \in 1..model.nx |-> i], model.nx)
external_vars == List([i \in 1..model.ny |-> model.nx + i], model.ny)
residual_cons == model.residual_cons
external_cons == model.external_cons

\* PyomoNLP(self._block): a snapshot of the values the variables hold; a
\* variable that is fixed when it is built is a constant of it, not a primal
PyomoNLP(x, y) == [primals |-> x \o y, fixed |-> xfixed]

\* what the inner solve of a call saw: which of input_vars were fixed, and
\* the variables and constraints of the block it solved
NoSolve == [fixed |-> <<>>, variables |-> <<>>, constraints |-> <<>>]

\* outcome records
\* solve: how the inner solve of the call ended, "none" if it made none
Outcome(op, status, error, kind, val, den, arg, nsplu) ==
    [op |-> op, status |-> status, error |-> error, kind |-> kind,
     val |-> val, den |-> den, arg |-> arg, nsplu |-> nsplu, solve |-> "none",
     during |-> NoSolve]

Returned(op, kind, val, den, arg, nsplu) ==
    Outcome(op, "ok", "", kind, val, den, arg, nsplu)

Raised(op, error, arg, nsplu) ==
    Outcome(op, "error", error, "none", <<>>, 1, arg, nsplu)

NoCall == Outcome("__init__", "ok", "", "none", <<>>, 1, <<>>, 0)

Remember ==
    jacSplu' = IF ret.op = "evaluate_jacobian_equality_constraints"
               THEN ret.nsplu ELSE 0

\* the input variables that are fixed when the instance is built: none, or
\* the first
FixedAtConstruction(nx) ==
    {List([i \in 1..nx |-> i = 1 /\ b], nx) : b \in BOOLEAN}

\* no call of get_hessian_of_constraint is followed
NoHessianCall == [op |-> "none"]

\* bounds of the objective values of the GDPopt algorithm object
MaxBound == 1
MaxTol == 1

\* float('inf') and float('-inf'): beyond every finite value, and beyond
\* every finite value plus a tolerance
inf == MaxBound + MaxTol + 1
Finite == (0 - MaxBound)..MaxBound
Float == Finite \cup {inf, 0 - inf}

\* a + b for a finite b
Plus(a, b) == IF a = inf \/ a = 0 - inf THEN a ELSE a + b

\* an argument that is None, or a number
Nothing == [given |-> FALSE, val |-> 0]
Just(v) == [given |-> TRUE, val |-> v]
Optional(S) == {Nothing} \cup {Just(v) : v \in S}

\* the fields of _GDPoptAlgorithm after __init__, before any call
NoBoundsCall ==
    [op |-> "__init__", updated |-> FALSE, primal |-> Nothing,
     dual |-> Nothing, force_update |-> FALSE, tol |-> 0, result |-> FALSE,
     oldLB |-> 0 - inf, oldUB |-> inf,
     recorded |-> "none", error |-> "", arg |-> <<>>]

\* what a solve has done: none has begun
NoSolveCall ==
    [solve_gdp |-> 0, added |-> FALSE, transfer |-> FALSE, results |-> FALSE]

\* no solve(model, config) is followed
NoSolveFollowed ==
    /\ stage = "idle"
    /\ problem = [binary |-> 0, integer |-> 0, disjunctions |-> 0,
                  sense |-> "minimize"]
    /\ util_block = FALSE
    /\ incumbent = Nothing
    /\ model_values = 0
    /\ sret = NoSolveCall

\* no algorithm object is followed
NoAlgorithm ==
    /\ LB = 0 - inf
    /\ UB = inf
    /\ unbounded = FALSE
    /\ objective_sense = "minimize"
    /\ termination_condition = "none"
    /\ gret = NoBoundsCall
    /\ iteration = 0
    /\ NoSolveFollowed

\* a plausible slip: the lengths of external_vars and external_cons are not
\* compared
Init_unchecked ==
    /\ sys \in 1..Len(Systems)
    /\ constructed = TRUE
    /\ xval \in [1..Systems[sys].nx -> InitVals]
    /\ yval \in [1..Systems[sys].ny -> InitVals]
    /\ xfixed \in FixedAtConstruction(Systems[sys].nx)
    /\ nlp = PyomoNLP(xval, yval)
    /\ ret = NoCall
    /\ jacSplu = 0
    /\ everSet = FALSE
    /\ lastSet = FALSE
    /\ fresh = TRUE
    /\ hcall = NoHessianCall
    /\ NoAlgorithm

Init ==
    /\ sys \in 1..Len(Systems)
    /\ constructed = (Systems[sys].ny = Len(Systems[sys].external_cons))
    /\ xval \in [1..Systems[sys].nx -> InitVals]
    /\ yval \in [1..Systems[sys].ny -> InitVals]
    /\ xfixed \in FixedAtConstruction(Systems[sys].nx)
    /\ nlp = PyomoNLP(xval, yval)
    /\ ret = IF constructed THEN NoCall
             ELSE Raised("__init__", "AssertionError", <<>>, 0)
    /\ jacSplu = 0
    /\ everSet = FALSE
    /\ lastSet = FALSE
    /\ fresh = TRUE
    /\ hcall = NoHessianCall
    /\ NoAlgorithm

-----------------------------------------------------------------------------
(* The derivative backend (PyomoNLP) and the sparse LU solver.             *)

\* nlp.extract_subvector_constraints(cons)
extract_subvector_constraints(n, cons) ==
    List([i \in 1..Len(cons) |-> EqValue(cons[i], n.primals)], Len(cons))

\* nlp.extract_submatrix_jacobian(variables, cons): one row per constraint
extract_submatrix_jacobian(n, variables, cons) ==
    List([i \in 1..Len(cons) |->
            List([j \in 1..Len(variables) |->
                    EqGrad(cons[i], n.primals, variables[j])],
                 Len(variables))], Len(cons))

\* whether the NLP knows every one of the variables as a primal; extracting
\* a Jacobian column of a variable it does not know fails
has_primals(n, variables) ==
    \A j \in 1..Len(variables) :
        variables[j] \in 1..Len(n.fixed) => ~n.fixed[variables[j]]

\* sps.linalg.splu(A): fails when A is exactly singular
splu(A) == [singular |-> Det(A) = 0, det |-> Det(A), adj |-> Adj(A)]

\* splu(A).solve(B) = adj(A).B / det(A), as numerators over lu.det
solve(lu, B) == MatMul(lu.adj, B)

\* an optional list of variables (wrt1=None, wrt2=None)
None == [given |-> FALSE, variables |-> <<>>]
Some(variables) == [given |-> TRUE, variables |-> variables]

SetToSeq(S) ==
    List([i \in 1..Cardinality(S) |->
            CHOOSE e \in S : Cardinality({d \in S : d < e}) = i - 1],
         Cardinality(S))

\* a plausible slip: the fixed variables of the expression are kept
default_variables_with_fixed(constraint, fixed) ==
    SetToSeq(identify_variables(constraint))

\* list(identify_variables(constraint.expr, include_fixed=False))
default_variables(constraint, fixed) ==
    SetToSeq({v \in identify_variables(constraint) : v \notin fixed})

\* block._dummy_con: sum(variables) == block._dummy_var, a linear equation
\* (block._dummy_var is no variable of the caller and has no coefficient here)
dummy_con(n, variables) ==
    Eq(0,
       List([v \in 1..n |->
               Cardinality({k \in 1..Len(variables) : variables[k] = v})], n),
       Zeros(n, n))

\* the constraints of PyomoNLP(block), in the order of the backend: idx is the
\* index (0 or 1) it gives to the constraint of the caller
block_constraints(constraint, variables, idx) ==
    LET real == [name |-> "constraint", expr |-> constraint]
        dummy == [name |-> "_dummy_con",
                  expr |-> dummy_con(Len(constraint.lin), variables)]
    IN  IF idx = 0 THEN <<real, dummy>> ELSE <<dummy, real>>

\* nlp.get_constraint_indices(constraints)[0]: what the backend may answer
get_constraint_indices == {0, 1}

\* a plausible slip: the multiplier of the first constraint is set
hessian_duals_first(idx) == <<1, 0>>

\* duals = [0.0, 0.0]; duals[idx] = 1.0
hessian_duals(idx) == List([k \in 1..2 |-> IF k = idx + 1 THEN 1 ELSE 0], 2)

\* nlp.extract_submatrix_hessian_lag(wrt1, wrt2): second derivatives of the
\* sum of the constraints of the block weighted by the multipliers
extract_submatrix_hessian_lag(block, duals, rows, cols) ==
    List([i \in 1..Len(rows) |->
            List([j \in 1..Len(cols) |->
                    SumTo([k \in 1..Len(block) |->
                             duals[k] * EqHess(block[k].expr, rows[i], cols[j])],
                          Len(block))],
                 Len(cols))], Len(rows))

\* return nlp.extract_submatrix_hessian_lag(wrt1, wrt2), with what the call
\* built on the way.  A fixed variable is not a variable of PyomoNLP(block),
\* so asking for its row or column fails.
hessian_of_block(constraint, wrt1, wrt2, fixed, idx, rows, cols, block, duals, known) ==
    [op |-> "get_hessian_of_constraint",
     constraint |-> constraint, wrt1 |-> wrt1, wrt2 |-> wrt2,
     fixed |-> fixed, idx |-> idx,
     block |-> block, duals |-> duals, rows |-> rows, cols |-> cols,
     status |-> IF known THEN "ok" ELSE "error",
     error |-> IF known THEN "" ELSE "KeyError",
     val |-> IF known
             THEN extract_submatrix_hessian_lag(block, duals, rows, cols)
             ELSE <<>>]

\* the private block, the multipliers and the call of the backend, once wrt1
\* and wrt2 are settled as rows and cols
hessian_wrt(constraint, wrt1, wrt2, fixed, idx, rows, cols) ==
    hessian_of_block(constraint, wrt1, wrt2, fixed, idx, rows, cols,
        block_constraints(constraint,
                          IF wrt1.given /\ wrt2.given
                          THEN wrt1.variables \o wrt2.variables ELSE rows,
                          idx),
        hessian_duals(idx),
        \A k \in 1..Len(rows \o cols) : (rows \o cols)[k] \notin fixed)

\* the four cases of wrt1 and wrt2, `all` being the default of both
hessian_defaults(constraint, wrt1, wrt2, fixed, idx, all) ==
    hessian_wrt(constraint, wrt1, wrt2, fixed, idx,
        IF wrt1.given THEN wrt1.variables
        ELSE IF wrt2.given THEN wrt2.variables ELSE all,
        IF wrt2.given THEN wrt2.variables
        ELSE IF wrt1.given THEN wrt1.variables ELSE all)

\* get_hessian_of_constraint(constraint, wrt1, wrt2), with the variables that
\* are fixed at the call and the index the backend gives to the constraint
get_hessian_of_constraint(constraint, wrt1, wrt2, fixed, idx) ==
    hessian_defaults(constraint, wrt1, wrt2, fixed, idx,
                     default_variables(constraint, fixed))

-----------------------------------------------------------------------------
(* The implicit differentiation engine.                                    *)

\* a plausible slip: the factor -1 of dydx is left out
jacobian_without_sign(n) ==
    LET x == input_vars
        y == external_vars
        f == residual_cons
        g == external_cons
        jfx == extract_submatrix_jacobian(n, x, f)
        jfy == extract_submatrix_jacobian(n, y, f)
        jgx == extract_submatrix_jacobian(n, x, g)
        jgy == extract_submatrix_jacobian(n, y, g)
        lu == splu(jgy)
        dydx == solve(lu, jgx)
    IN  IF ~has_primals(n, x)
        THEN [status |-> "error", error |-> "KeyError", nsplu |-> 0,
              val |-> <<>>, den |-> 1]
        ELSE IF lu.singular
        THEN [status |-> "error", error |-> "RuntimeError", nsplu |-> 1,
              val |-> <<>>, den |-> 1]
        ELSE [status |-> "ok", error |-> "", nsplu |-> 1,
              val |-> MatAdd(Scale(lu.det, jfx), MatMul(jfy, dydx)),
              den |-> lu.det]

\* a plausible slip: a singular jgy is caught and dydx taken to be zero
jacobian_regularized(n) ==
    LET x == input_vars
        y == external_vars
        f == residual_cons
        g == external_cons
        jfx == extract_submatrix_jacobian(n, x, f)
        jfy == extract_submatrix_jacobian(n, y, f)
        jgx == extract_submatrix_jacobian(n, x, g)
        jgy == extract_submatrix_jacobian(n, y, g)
        lu == splu(jgy)
        dydx == Scale(-1, solve(lu, jgx))
    IN  IF ~has_primals(n, x)
        THEN [status |-> "error", error |-> "KeyError", nsplu |-> 0,
              val |-> <<>>, den |-> 1]
        ELSE IF lu.singular
        THEN [status |-> "ok", error |-> "", nsplu |-> 1,
              val |-> jfx, den |-> 1]
        ELSE [status |-> "ok", error |-> "", nsplu |-> 1,
              val |-> MatAdd(Scale(lu.det, jfx), MatMul(jfy, dydx)),
              den |-> lu.det]

\* evaluate_jacobian_equality_constraints: a value is num / den
jacobian_equality_constraints(n) ==
    LET x == input_vars
        y == external_vars
        f == residual_cons
        g == external_cons
        jfx == extract_submatrix_jacobian(n, x, f)
        jfy == extract_submatrix_jacobian(n, y, f)
        jgx == extract_submatrix_jacobian(n, x, g)
        jgy == extract_submatrix_jacobian(n, y, g)
        lu == splu(jgy)
        dydx == Scale(-1, solve(lu, jgx))
    IN  IF ~has_primals(n, x)
        THEN [status |-> "error", error |-> "KeyError", nsplu |-> 0,
              val |-> <<>>, den |-> 1]
        ELSE IF lu.singular
        THEN [status |-> "error", error |-> "RuntimeError", nsplu |-> 1,
              val |-> <<>>, den |-> 1]
        ELSE [status |-> "ok", error |-> "", nsplu |-> 1,
              val |-> MatAdd(Scale(lu.det, jfx), MatMul(jfy, dydx)),
              den |-> lu.det]

\* evaluate_hessian_external_variables: a list of matrices over one den
hessian_external_variables(n, idx) ==
    LET x == input_vars
        y == external_vars
        g == external_cons
        fixed == {x[i] : i \in {j \in 1..Len(x) : xfixed[j]}}
        jgx == extract_submatrix_jacobian(n, x, g)
        jgy == extract_submatrix_jacobian(n, y, g)
        lu == splu(jgy)
        d == lu.det
        dydx == Scale(-1, solve(lu, jgx))           \* over d
        dydxT == Transpose(dydx)
        K == 1..Len(g)
        hgxx == List([k \in K |->
                        get_hessian_of_constraint(g[k], Some(x), None,
                                                  fixed, idx).val], Len(g))
        hgxy == List([k \in K |->
                        get_hessian_of_constraint(g[k], Some(x), Some(y),
                                                  fixed, idx).val], Len(g))
        hgyy == List([k \in K |->
                        get_hessian_of_constraint(g[k], Some(y), None,
                                                  fixed, idx).val], Len(g))
        term2ok == \A k \in K : Conformable(hgxy[k], dydxT)
        term3ok == \A k \in K :
                      /\ Conformable(hgyy[k], dydxT)
                      /\ Conformable(Transpose(MatMul(hgyy[k], dydxT)), dydxT)
        term1 == hgxx
        \* over d
        term2 == List([k \in K |-> Scale(2, MatMul(hgxy[k], dydxT))], Len(g))
        \* over d*d
        term3 == List([k \in K |->
                        MatMul(Transpose(MatMul(hgyy[k], dydxT)), dydxT)], Len(g))
        sumok == \A k \in K : /\ SameShape(term1[k], term2[k])
                              /\ SameShape(term2[k], term3[k])
        \* over d*d
        sum_ == List([k \in K |->
                        MatAdd(MatAdd(Scale(d * d, term1[k]), Scale(d, term2[k])),
                               term3[k])], Len(g))
        solveok == \A k \in K : Rows(sum_[k]) = Rows(jgy)
        \* over d*d*d
        d2ydx2 == List([k \in K |-> Scale(-1, solve(lu, sum_[k]))], Len(g))
        fails(error, count) ==
            [status |-> "error", error |-> error, nsplu |-> count,
             val |-> <<>>, den |-> 1]
    IN  IF ~has_primals(n, x) THEN fails("KeyError", 0)
        ELSE IF lu.singular THEN fails("RuntimeError", 1)
        ELSE IF ~(term2ok /\ term3ok) THEN fails("ValueError", 1)
        ELSE IF ~sumok THEN fails("ValueError", 1)
        ELSE IF ~solveok THEN fails("ValueError", 2)
        ELSE [status |-> "ok", error |-> "", nsplu |-> 1 + Len(sum_),
              val |-> d2ydx2, den |-> d * d * d]

-----------------------------------------------------------------------------
(* The inner nonlinear solve.                                              *)

\* solver.solve(_temp) with the inputs fixed at x, started from y0: it
\* converges to a solution of the external equations, or it does not
\* converge, which it reports by failing.
solver_solve(x, y0) ==
    {[converged |-> TRUE, y |-> y] :
        y \in {r \in [1..Len(y0) -> Vals] :
                  \A k \in 1..Len(external_cons) :
                      EqValue(external_cons[k], x \o r) = 0}}
    \cup {[converged |-> FALSE, y |-> y0]}

\* create_subsystem_block(external_cons, variables=external_vars).input_vars:
\* the unfixed variables of the constraints that are not among `variables`
temp_input_vars ==
    {v \in UNION {identify_variables(external_cons[k]) :
                    k \in 1..Len(external_cons)}
              \ {external_vars[i] : i \in 1..Len(external_vars)} :
        v \in 1..Len(xfixed) => ~xfixed[v]}

\* with TemporarySubsystemManager(to_fix=input_vars): on entry every one of
\* to_fix is fixed, on exit (normal or not) each is as it was on entry
TemporarySubsystemManager_enter(was_fixed) ==
    List([i \in 1..Len(was_fixed) |-> TRUE], Len(was_fixed))

TemporarySubsystemManager_exit(was_fixed) == was_fixed

\* what solver.solve(_temp) sees inside the with statement
SolveContext ==
    [fixed |-> TemporarySubsystemManager_enter(xfixed),
     variables |-> external_vars,
     constraints |-> external_cons]

-----------------------------------------------------------------------------
(* The facade: one action per method of ExternalPyomoModel.                *)

\* the attributes __init__ binds on self
Attributes ==
    {"_block", "_nlp", "input_vars", "external_vars", "residual_cons",
     "external_cons"}

Frame == UNCHANGED <<sys, constructed, hcall, gdpVars, solveVars>>
Query ==
    /\ Frame
    /\ Remember
    /\ UNCHANGED <<xval, yval, nlp, everSet, lastSet, xfixed, fresh>>

n_inputs ==
    /\ constructed
    /\ ret' = Returned("n_inputs", "int", <<Len(input_vars)>>, 1, <<>>, 0)
    /\ Query

\* len(self.residual_equations)
n_equality_constraints_result(op) ==
    IF "residual_equations" \in Attributes
    THEN Returned(op, "int", <<Len(residual_cons)>>, 1, <<>>, 0)
    ELSE Raised(op, "AttributeError", <<>>, 0)

n_equality_constraints ==
    /\ constructed
    /\ ret' = n_equality_constraints_result("n_equality_constraints")
    /\ Query

\* a plausible slip: the values are matched to the variables back to front
assign_reversed(input_values) ==
    List([i \in 1..Len(input_vars) |->
            IF Len(input_values) - i + 1 \in 1..Len(input_values)
            THEN input_values[Len(input_values) - i + 1] ELSE xval[i]],
         Len(input_vars))

\* a plausible slip: the variables a short list does not reach are reset
assign_padded(input_values) ==
    List([i \in 1..Len(input_vars) |->
            IF i <= Len(input_values) THEN input_values[i] ELSE 0],
         Len(input_vars))

\* for var, val in zip(input_vars, input_values): var.set_value(val)
assign(input_values) ==
    List([i \in 1..Len(input_vars) |->
            IF i <= Len(input_values) THEN input_values[i] ELSE xval[i]],
         Len(input_vars))

\* a plausible slip: the failure of the inner solve is swallowed
resolve_swallowed(x, input_values, out) ==
    /\ yval' = out.y
    /\ xfixed' = TemporarySubsystemManager_exit(xfixed)
    /\ nlp' = PyomoNLP(x, out.y)
    /\ ret' = [Returned("set_input_values", "None", <<>>, 1, input_values, 0)
                 EXCEPT !.solve = IF out.converged THEN "converged" ELSE "failed",
                        !.during = SolveContext]
    /\ everSet' = TRUE
    /\ lastSet' = TRUE
    /\ fresh' = TRUE

\* a plausible slip: the inputs are fixed for the solve and never released
resolve_left_fixed(x, input_values, out) ==
    /\ yval' = out.y
    /\ xfixed' = TemporarySubsystemManager_enter(xfixed)
    /\ IF out.converged
       THEN /\ nlp' = PyomoNLP(x, out.y)
            /\ ret' = [Returned("set_input_values", "None", <<>>, 1,
                                input_values, 0)
                         EXCEPT !.solve = "converged", !.during = SolveContext]
            /\ everSet' = TRUE
            /\ lastSet' = TRUE
            /\ fresh' = TRUE
       ELSE /\ nlp' = nlp
            /\ ret' = [Raised("set_input_values", "SolverError",
                              input_values, 0)
                         EXCEPT !.solve = "failed", !.during = SolveContext]
            /\ lastSet' = FALSE
            /\ fresh' = FALSE
            /\ UNCHANGED everSet

\* the inner solve with the inputs fixed, then self._nlp = PyomoNLP(self._block)
resolve(x, input_values, out) ==
    /\ yval' = out.y
    /\ xfixed' = TemporarySubsystemManager_exit(xfixed)
    /\ IF out.converged
       THEN /\ nlp' = PyomoNLP(x, out.y)
            /\ ret' = [Returned("set_input_values", "None", <<>>, 1,
                                input_values, 0)
                         EXCEPT !.solve = "converged", !.during = SolveContext]
            /\ everSet' = TRUE
            /\ lastSet' = TRUE
            /\ fresh' = TRUE
       ELSE /\ nlp' = nlp
            /\ ret' = [Raised("set_input_values", "SolverError",
                              input_values, 0)
                         EXCEPT !.solve = "failed", !.during = SolveContext]
            /\ lastSet' = FALSE
            /\ fresh' = FALSE
            /\ UNCHANGED everSet

\* a plausible slip: the check of the inputs of the external equations is
\* left out
set_input_values_unchecked(input_values) ==
    LET x == assign(input_values)
    IN  /\ constructed
        /\ Frame
        /\ Remember
        /\ xval' = x
        /\ \E out \in solver_solve(x, yval) : resolve(x, input_values, out)

set_input_values(input_values) ==
    LET x == assign(input_values)
    IN  /\ constructed
        /\ Frame
        /\ Remember
        /\ xval' = x
        /\ IF Cardinality(temp_input_vars) # Len(input_vars)
           THEN /\ ret' = Raised("set_input_values", "AssertionError",
                                 input_values, 0)
                /\ lastSet' = FALSE
                /\ fresh' = FALSE
                /\ UNCHANGED <<yval, nlp, everSet, xfixed>>
           ELSE \E out \in solver_solve(x, yval) : resolve(x, input_values, out)

\* a plausible slip: the call is a soft no-op
set_equality_constraint_multipliers_noop(eq_con_multipliers) ==
    /\ constructed
    /\ ret' = Returned("set_equality_constraint_multipliers", "None", <<>>, 1,
                       eq_con_multipliers, 0)
    /\ Query

set_equality_constraint_multipliers(eq_con_multipliers) ==
    /\ constructed
    /\ ret' = Raised("set_equality_constraint_multipliers",
                     "NotImplementedError", eq_con_multipliers, 0)
    /\ Query

\* a plausible slip: the external equations are reported as well
evaluate_all_constraints ==
    /\ constructed
    /\ ret' = Returned("evaluate_equality_constraints", "vector",
                       extract_subvector_constraints(
                           nlp, residual_cons \o external_cons),
                       1, <<>>, 0)
    /\ Query

evaluate_equality_constraints ==
    /\ constructed
    /\ ret' = Returned("evaluate_equality_constraints", "vector",
                       extract_subvector_constraints(nlp, residual_cons),
                       1, <<>>, 0)
    /\ Query

evaluate_jacobian_equality_constraints ==
    /\ constructed
    /\ \E r \in {jacobian_equality_constraints(nlp)} :
          LET op == "evaluate_jacobian_equality_constraints"
          IN  /\ ret' = IF r.status = "error"
                        THEN Raised(op, r.error, <<>>, r.nsplu)
                        ELSE Returned(op, "matrix", r.val, r.den, <<>>, r.nsplu)
              /\ Query

\* the method ends after the call of evaluate_hessian_external_variables
evaluate_hessian_equality_constraints ==
    /\ constructed
    /\ \E idx \in get_constraint_indices :
        \E d2ydx2 \in {hessian_external_variables(nlp, idx)} :
          LET op == "evaluate_hessian_equality_constraints"
          IN  /\ ret' = IF d2ydx2.status = "error"
                        THEN Raised(op, d2ydx2.error, <<>>, d2ydx2.nsplu)
                        ELSE Returned(op, "None", <<>>, 1, <<>>, d2ydx2.nsplu)
              /\ Query

evaluate_hessian_external_variables ==
    /\ constructed
    /\ \E idx \in get_constraint_indices :
        \E r \in {hessian_external_variables(nlp, idx)} :
          LET op == "evaluate_hessian_external_variables"
          IN  /\ ret' = IF r.status = "error"
                        THEN Raised(op, r.error, <<>>, r.nsplu)
                        ELSE Returned(op, "matrices", r.val, r.den, <<>>,
                                      r.nsplu)
              /\ Query

\* argument lists of set_input_values: shorter, equal and longer than n_x
InputValues ==
    LET n == Len(input_vars)
    IN  [1..(n - 1) -> Vals] \cup [1..n -> Vals] \cup [1..(n + 1) -> {MaxVal}]

\* arguments of set_equality_constraint_multipliers
Multipliers == UNION {[1..n -> {0, 1}] : n \in 0..1}

SetInputValues == \E input_values \in InputValues : set_input_values(input_values)
SetEqualityConstraintMultipliers ==
    \E m \in Multipliers : set_equality_constraint_multipliers(m)

Next ==
    \/ n_inputs
    \/ n_equality_constraints
    \/ SetInputValues
    \/ SetEqualityConstraintMultipliers
    \/ evaluate_equality_constraints
    \/ evaluate_jacobian_equality_constraints
    \/ evaluate_hessian_external_variables
    \/ evaluate_hessian_equality_constraints

Spec == Init /\ [][Next]_vars

-----------------------------------------------------------------------------
(* get_hessian_of_constraint on its own: the arguments are drawn, the      *)
(* function is applied once.                                               *)

\* the constraints of the catalogue
HessianConstraints ==
    UNION {{Systems[s].residual_cons[k] : k \in 1..Len(Systems[s].residual_cons)}
           \cup {Systems[s].external_cons[k] :
                    k \in 1..Len(Systems[s].external_cons)} :
           s \in 1..Len(Systems)}

\* wrt1, wrt2: not given, one variable, or two variables
WrtArguments(n) ==
    {None} \cup {Some(<<i>>) : i \in 1..n}
           \cup {Some(<<i, j>>) : i \in 1..n, j \in 1..n}

\* the variables that are fixed at the call: none or one
FixedArguments(n) == {{}} \cup {{v} : v \in 1..n}

\* the calls that can be made on a constraint
HessianArguments(c) ==
    [op : {"pending"}, constraint : {c},
     wrt1 : WrtArguments(Len(c.lin)), wrt2 : WrtArguments(Len(c.lin)),
     fixed : FixedArguments(Len(c.lin)), idx : get_constraint_indices]

InitHessian ==
    /\ \E c \in HessianConstraints : hcall \in HessianArguments(c)
    /\ NoAlgorithm
    /\ sys = 1
    /\ constructed = FALSE
    /\ xval = <<>>
    /\ yval = <<>>
    /\ xfixed = <<>>
    /\ nlp = PyomoNLP(xval, yval)
    /\ ret = NoCall
    /\ jacSplu = 0
    /\ everSet = FALSE
    /\ lastSet = FALSE
    /\ fresh = TRUE

GetHessianOfConstraint ==
    /\ hcall.op = "pending"
    /\ hcall' = get_hessian_of_constraint(hcall.constraint, hcall.wrt1,
                                          hcall.wrt2, hcall.fixed, hcall.idx)
    /\ UNCHANGED <<facadeVars, gdpVars, solveVars>>

NextHessian == GetHessianOfConstraint

SpecHessian == InitHessian /\ [][NextHessian]_vars

-----------------------------------------------------------------------------
(* The bounds of _GDPoptAlgorithm.                                         *)

\* the outcome of a call
BoundsCall(op, updated, primal, dual, force_update, tol, result) ==
    [op |-> op, updated |-> updated, primal |-> primal, dual |-> dual,
     force_update |-> force_update, tol |-> tol, result |-> result,
     oldLB |-> LB, oldUB |-> UB,
     recorded |-> "none", error |-> "", arg |-> <<>>]

\* a plausible slip: the bounds are set whether or not they improve
_update_bounds_always(lb, ub, primal, dual, force_update) ==
    IF objective_sense = "minimize"
    THEN [UB |-> IF primal.given THEN primal.val ELSE ub,
          LB |-> IF dual.given THEN dual.val ELSE lb,
          primal_bound_improved |-> primal.given /\ primal.val < ub]
    ELSE [LB |-> IF primal.given THEN primal.val ELSE lb,
          UB |-> IF dual.given THEN dual.val ELSE ub,
          primal_bound_improved |-> primal.given /\ primal.val > lb]

\* _update_bounds(primal, dual, force_update) on the bounds lb (oldLB) and
\* ub (oldUB): the new bounds and the value returned
_update_bounds(lb, ub, primal, dual, force_update) ==
    IF objective_sense = "minimize"
    THEN [UB |-> IF primal.given /\ (primal.val < ub \/ force_update)
                 THEN primal.val ELSE ub,
          LB |-> IF dual.given /\ (dual.val > lb \/ force_update)
                 THEN dual.val ELSE lb,
          primal_bound_improved |-> primal.given /\ primal.val < ub]
    ELSE [LB |-> IF primal.given /\ (primal.val > lb \/ force_update)
                 THEN primal.val ELSE lb,
          UB |-> IF dual.given /\ (dual.val < ub \/ force_update)
                 THEN dual.val ELSE ub,
          primal_bound_improved |-> primal.given /\ primal.val > lb]

\* primal_bound()
primal_bound == IF objective_sense = "minimize" THEN UB ELSE LB

\* the bound that is not the primal bound
dual_bound == IF objective_sense = "minimize" THEN LB ELSE UB

\* a call of _update_bounds and nothing else
UpdateBounds(primal, dual, force_update) ==
    \E r \in {_update_bounds(LB, UB, primal, dual, force_update)} :
        /\ LB' = r.LB
        /\ UB' = r.UB
        /\ gret' = BoundsCall("_update_bounds", TRUE, primal, dual,
                              force_update, 0, r.primal_bound_improved)
        /\ UNCHANGED <<unbounded, objective_sense, termination_condition>>

\* the bounds after a call of _update_bounds with the dual value `dual`
BoundsAfter(r, dual) == [LB |-> r.LB, UB |-> r.UB, dual |-> dual]

\* _update_dual_bound_to_infeasible(): the new bounds
_update_dual_bound_to_infeasible ==
    IF objective_sense = "minimize"
    THEN BoundsAfter(_update_bounds(LB, UB, Nothing, Just(inf), FALSE),
                     Just(inf))
    ELSE BoundsAfter(_update_bounds(LB, UB, Nothing, Just(0 - inf), FALSE),
                     Just(0 - inf))

\* _update_primal_bound_to_unbounded()
_update_primal_bound_to_unbounded ==
    \E primal \in {IF objective_sense = "minimize" THEN Just(0 - inf)
                    ELSE Just(inf)} :
      \E r \in {_update_bounds(LB, UB, primal, Nothing, FALSE)} :
        /\ LB' = r.LB
        /\ UB' = r.UB
        /\ unbounded' = TRUE
        /\ gret' = BoundsCall("_update_primal_bound_to_unbounded", TRUE,
                              primal, Nothing, FALSE, 0, FALSE)
        /\ UNCHANGED <<objective_sense, termination_condition>>

\* what bounds_converged leaves: the bounds, the termination condition it
\* records ("none" if it records none) and what it returns
Converged(lb, ub, updated, recorded, result) ==
    [LB |-> lb, UB |-> ub, updated |-> updated, recorded |-> recorded,
     result |-> result]

\* self._update_bounds(dual=self.primal_bound(), force_update=...) in
\* bounds_converged, then tc.optimal
Crossed(r) == Converged(r.LB, r.UB, TRUE, "optimal", TRUE)

\* a plausible slip: the bound is set to the primal bound only if that
\* improves it
bounds_converged_unforced(bound_tolerance) ==
    IF unbounded THEN Converged(LB, UB, FALSE, "unbounded", TRUE)
    ELSE IF Plus(LB, bound_tolerance) >= UB
    THEN IF (LB = inf /\ UB = inf) \/ (LB = 0 - inf /\ UB = 0 - inf)
         THEN Converged(LB, UB, FALSE, "infeasible", TRUE)
         ELSE IF Plus(LB, bound_tolerance) > UB
         THEN Crossed(_update_bounds(LB, UB, Nothing, Just(primal_bound),
                                     FALSE))
         ELSE Converged(LB, UB, FALSE, "optimal", TRUE)
    ELSE Converged(LB, UB, FALSE, "none", FALSE)

\* a plausible slip: only the bounds at +inf are taken as infeasible
bounds_converged_one_sided(bound_tolerance) ==
    IF unbounded THEN Converged(LB, UB, FALSE, "unbounded", TRUE)
    ELSE IF Plus(LB, bound_tolerance) >= UB
    THEN IF LB = inf /\ UB = inf
         THEN Converged(LB, UB, FALSE, "infeasible", TRUE)
         ELSE IF Plus(LB, bound_tolerance) > UB
         THEN Crossed(_update_bounds(LB, UB, Nothing, Just(primal_bound),
                                     TRUE))
         ELSE Converged(LB, UB, FALSE, "optimal", TRUE)
    ELSE Converged(LB, UB, FALSE, "none", FALSE)

\* a plausible slip: the unbounded flag is looked at after the bounds
bounds_converged_bounds_first(bound_tolerance) ==
    IF Plus(LB, bound_tolerance) >= UB
    THEN IF (LB = inf /\ UB = inf) \/ (LB = 0 - inf /\ UB = 0 - inf)
         THEN Converged(LB, UB, FALSE, "infeasible", TRUE)
         ELSE IF Plus(LB, bound_tolerance) > UB
         THEN Crossed(_update_bounds(LB, UB, Nothing, Just(primal_bound),
                                     TRUE))
         ELSE Converged(LB, UB, FALSE, "optimal", TRUE)
    ELSE IF unbounded THEN Converged(LB, UB, FALSE, "unbounded", TRUE)
    ELSE Converged(LB, UB, FALSE, "none", FALSE)

\* bounds_converged(config), config.bound_tolerance being bound_tolerance
bounds_converged(bound_tolerance) ==
    IF unbounded THEN Converged(LB, UB, FALSE, "unbounded", TRUE)
    ELSE IF Plus(LB, bound_tolerance) >= UB
    THEN IF (LB = inf /\ UB = inf) \/ (LB = 0 - inf /\ UB = 0 - inf)
         THEN Converged(LB, UB, FALSE, "infeasible", TRUE)
         ELSE IF Plus(LB, bound_tolerance) > UB
         THEN Crossed(_update_bounds(LB, UB, Nothing, Just(primal_bound),
                                     TRUE))
         ELSE Converged(LB, UB, FALSE, "optimal", TRUE)
    ELSE Converged(LB, UB, FALSE, "none", FALSE)

\* reached_iteration_limit(config), config.iterlim being iterlim
reached_iteration_limit(iterlim) ==
    IF iteration >= iterlim
    THEN Converged(LB, UB, FALSE, "maxIterations", TRUE)
    ELSE Converged(LB, UB, FALSE, "none", FALSE)

\* reached_time_limit(config), get_main_elapsed_time(self.timing) being
\* elapsed and config.time_limit being time_limit
reached_time_limit(elapsed, time_limit) ==
    IF elapsed >= time_limit
    THEN Converged(LB, UB, FALSE, "maxTimeLimit", TRUE)
    ELSE Converged(LB, UB, FALSE, "none", FALSE)

\* a plausible slip: the three criteria are all evaluated, the last one that
\* holds records its condition
any_termination_criterion_met_eager(bound_tolerance, iterlim, elapsed, time_limit) ==
    IF reached_time_limit(elapsed, time_limit).result
    THEN [bounds_converged(bound_tolerance)
             EXCEPT !.recorded = "maxTimeLimit", !.result = TRUE]
    ELSE IF reached_iteration_limit(iterlim).result
    THEN [bounds_converged(bound_tolerance)
             EXCEPT !.recorded = "maxIterations", !.result = TRUE]
    ELSE bounds_converged(bound_tolerance)

\* any_termination_criterion_met(config): a or b or c, b and c not evaluated
\* once one before them is true
any_termination_criterion_met(bound_tolerance, iterlim, elapsed, time_limit) ==
    IF bounds_converged(bound_tolerance).result
    THEN bounds_converged(bound_tolerance)
    ELSE IF reached_iteration_limit(iterlim).result
    THEN reached_iteration_limit(iterlim)
    ELSE reached_time_limit(elapsed, time_limit)

\* the members of TerminationCondition that are used here
TerminationConditions ==
    {"optimal", "infeasible", "feasible", "unbounded", "maxIterations",
     "maxTimeLimit", "other"}

\* bool(member) of a member of TerminationCondition: it is no empty value
truth(member) == member # ""

\* what _update_bounds_after_master_problem_solve leaves
MasterSolve(lb, ub, updated, dual, error) ==
    [LB |-> lb, UB |-> ub, updated |-> updated, dual |-> dual,
     error |-> error]

\* the branches of _update_bounds_after_master_problem_solve that update
AfterSolve(r, dual) == MasterSolve(r.LB, r.UB, TRUE, dual, "")
AfterInfeasible(r) == MasterSolve(r.LB, r.UB, TRUE, r.dual, "")

\* _update_bounds_after_master_problem_solve(mip_termination, obj_expr,
\* logger), value(obj_expr) being obj
_update_bounds_after_master_problem_solve(mip_termination, obj) ==
    IF mip_termination = "optimal"
    THEN AfterSolve(_update_bounds(LB, UB, Nothing, Just(obj), FALSE),
                    Just(obj))
    ELSE IF mip_termination = "infeasible"
    THEN AfterInfeasible(_update_dual_bound_to_infeasible)
    ELSE IF mip_termination = "feasible" \/ truth("unbounded")
    THEN MasterSolve(LB, UB, FALSE, Nothing, "")
    ELSE MasterSolve(LB, UB, FALSE, Nothing, "DeveloperError")

\* no instance of the facade and no call of get_hessian_of_constraint
NoFacade ==
    /\ sys = 1
    /\ constructed = FALSE
    /\ xval = <<>>
    /\ yval = <<>>
    /\ xfixed = <<>>
    /\ nlp = PyomoNLP(xval, yval)
    /\ ret = NoCall
    /\ jacSplu = 0
    /\ everSet = FALSE
    /\ lastSet = FALSE
    /\ fresh = TRUE
    /\ hcall = NoHessianCall

\* bounds of the iteration counter, the iteration limit and the clock
MaxIter == 1
MaxTime == 1

\* __init__ (lines 91-96), and the sense of the objective of the model
InitGDP ==
    /\ LB = 0 - inf
    /\ UB = inf
    /\ unbounded = FALSE
    /\ objective_sense \in {"minimize", "maximize"}
    /\ termination_condition = "none"
    /\ gret = NoBoundsCall
    /\ iteration = 0
    /\ NoSolveFollowed
    /\ NoFacade

\* what the calls on the algorithm object leave alone
otherVars == <<facadeVars, hcall, solveVars>>

\* the termination condition after a call that records `recorded`
Record(recorded) ==
    termination_condition' =
        IF recorded = "none" THEN termination_condition ELSE recorded

UpdateBoundsCall ==
    /\ \E primal \in Optional(Finite), dual \in Optional(Finite),
          force_update \in BOOLEAN :
          UpdateBounds(primal, dual, force_update)
    /\ UNCHANGED <<otherVars, iteration>>

UpdateDualBoundToInfeasible ==
    /\ \E r \in {_update_dual_bound_to_infeasible} :
          /\ LB' = r.LB
          /\ UB' = r.UB
          /\ gret' = BoundsCall("_update_dual_bound_to_infeasible", TRUE,
                                Nothing, r.dual, FALSE, 0, FALSE)
    /\ UNCHANGED <<unbounded, objective_sense, termination_condition>>
    /\ UNCHANGED <<otherVars, iteration>>

UpdatePrimalBoundToUnbounded ==
    /\ _update_primal_bound_to_unbounded
    /\ UNCHANGED <<otherVars, iteration>>

UpdateBoundsAfterMasterProblemSolve ==
    /\ \E mip_termination \in TerminationConditions, obj \in Finite :
        \E r \in {_update_bounds_after_master_problem_solve(mip_termination,
                                                            obj)} :
          /\ LB' = r.LB
          /\ UB' = r.UB
          /\ gret' = [BoundsCall("_update_bounds_after_master_problem_solve",
                                 r.updated, Nothing, r.dual, FALSE, 0, FALSE)
                         EXCEPT !.error = r.error,
                                !.arg = <<mip_termination>>]
    /\ UNCHANGED <<unbounded, objective_sense, termination_condition>>
    /\ UNCHANGED <<otherVars, iteration>>

\* a call that ends as `r` says: the bounds, the condition recorded, the result
Criterion(op, r, tol, arg) ==
    /\ LB' = r.LB
    /\ UB' = r.UB
    /\ Record(r.recorded)
    /\ gret' = [BoundsCall(op, r.updated, Nothing,
                           IF r.updated THEN Just(primal_bound) ELSE Nothing,
                           r.updated, tol, r.result)
                   EXCEPT !.recorded = r.recorded, !.arg = arg]
    /\ UNCHANGED <<unbounded, objective_sense, iteration, otherVars>>

BoundsConverged ==
    \E bound_tolerance \in 0..MaxTol :
      \E r \in {bounds_converged(bound_tolerance)} :
        Criterion("bounds_converged", r, bound_tolerance, <<>>)

ReachedIterationLimit ==
    \E iterlim \in 0..MaxIter :
      \E r \in {reached_iteration_limit(iterlim)} :
        Criterion("reached_iteration_limit", r, 0, <<iterlim>>)

ReachedTimeLimit ==
    \E elapsed \in 0..MaxTime, time_limit \in 0..MaxTime :
      \E r \in {reached_time_limit(elapsed, time_limit)} :
        Criterion("reached_time_limit", r, 0, <<elapsed, time_limit>>)

AnyTerminationCriterionMet ==
    \E bound_tolerance \in 0..MaxTol, iterlim \in 0..MaxIter,
       elapsed \in 0..MaxTime, time_limit \in 0..MaxTime :
      \E r \in {any_termination_criterion_met(bound_tolerance, iterlim,
                                              elapsed, time_limit)} :
        Criterion("any_termination_criterion_met", r, bound_tolerance,
                  <<iterlim, elapsed, time_limit>>)

\* the main loop of the algorithm goes to its next iteration
NextIteration ==
    /\ iteration < MaxIter
    /\ iteration' = iteration + 1
    /\ gret' = BoundsCall("iteration", FALSE, Nothing, Nothing, FALSE, 0,
                          FALSE)
    /\ UNCHANGED <<LB, UB, unbounded, objective_sense, termination_condition,
                   otherVars>>

NextGDP ==
    \/ UpdateBoundsCall
    \/ UpdateDualBoundToInfeasible
    \/ UpdatePrimalBoundToUnbounded
    \/ UpdateBoundsAfterMasterProblemSolve
    \/ BoundsConverged
    \/ ReachedIterationLimit
    \/ ReachedTimeLimit
    \/ AnyTerminationCriterionMet
    \/ NextIteration

SpecGDP == InitGDP /\ [][NextGDP]_vars

-----------------------------------------------------------------------------
(* _GDPoptAlgorithm.solve: preparation, main loop, transfer of the         *)
(* incumbent and removal of the utility block.                             *)

\* bound of the counts of binary variables, integer variables and
\* disjunctions of the model handed to solve
MaxCount == 1

\* results.problem as _get_pyomo_results_object_with_problem_info fills it
Problems ==
    [binary : 0..MaxCount, integer : 0..MaxCount,
     disjunctions : 0..MaxCount, sense : {"minimize", "maximize"}]

\* the values update_incumbent can store
IncumbentValues == 1..MaxVal

\* the truth value of the results object _prepare_for_solve returns
SolverResults_truth == TRUE

\* the test of _prepare_for_solve for a problem with no discrete decisions
no_discrete_decisions(prob) ==
    prob.binary = 0 /\ prob.integer = 0 /\ prob.disjunctions = 0

\* the values of the variables of the original model after
\* _transfer_incumbent_to_original_model: nothing is written when no
\* incumbent was stored
_transfer_incumbent_to_original_model(soln, values) ==
    IF ~soln.given THEN values ELSE soln.val

\* the original model has no utility block after
\* _delete_original_model_util_block
_delete_original_model_util_block == FALSE

\* the outcome of the part of solve that follows the main loop
AfterMainLoop(transfer, values, block) ==
    [transfer |-> transfer, model_values |-> values, util_block |-> block]

\* a plausible slip: solve returns at once, utility block in place, when
\* there is nothing to transfer
solve_after_main_loop_early_return(condition, soln, values, block) ==
    IF condition \notin {"infeasible", "unbounded"}
    THEN AfterMainLoop(TRUE,
                       _transfer_incumbent_to_original_model(soln, values),
                       _delete_original_model_util_block)
    ELSE AfterMainLoop(FALSE, values, block)

\* solve after _solve_gdp has returned: the incumbent is transferred unless
\* the termination condition is infeasible or unbounded, then the utility
\* block is deleted
solve_after_main_loop(condition, soln, values, block) ==
    IF condition \notin {"infeasible", "unbounded"}
    THEN AfterMainLoop(TRUE,
                       _transfer_incumbent_to_original_model(soln, values),
                       _delete_original_model_util_block)
    ELSE AfterMainLoop(FALSE, values, _delete_original_model_util_block)

\* what solve leaves alone
solveFrame == <<facadeVars, hcall, LB, UB, unbounded, gret, iteration>>

\* a fresh algorithm object and a call of solve(model, config) on a model
\* whose variables hold 0
InitSolve ==
    /\ LB = 0 - inf
    /\ UB = inf
    /\ unbounded = FALSE
    /\ objective_sense = "none"
    /\ termination_condition = "none"
    /\ gret = NoBoundsCall
    /\ iteration = 0
    /\ stage = "called"
    /\ problem \in Problems
    /\ util_block = FALSE
    /\ incumbent = Nothing
    /\ model_values = 0
    /\ sret = NoSolveCall
    /\ NoFacade

\* _prepare_for_solve: a problem with no discrete decisions is handed to
\* solve_continuous_problem, whose solver information becomes that of the
\* results solve returns; otherwise the utility block is added to the model
PrepareForSolve ==
    /\ stage = "called"
    /\ objective_sense' = problem.sense
    /\ IF no_discrete_decisions(problem)
       THEN /\ termination_condition' \in TerminationConditions
            /\ sret' = [sret EXCEPT !.results = SolverResults_truth]
            /\ UNCHANGED util_block
       ELSE /\ util_block' = TRUE
            /\ sret' = [sret EXCEPT !.added = TRUE]
            /\ UNCHANGED termination_condition
    /\ stage' = "prepared"
    /\ UNCHANGED <<problem, incumbent, model_values, solveFrame>>

\* solve returns the results of _prepare_for_solve when there are any
SolveReturnsResults ==
    /\ stage = "prepared"
    /\ sret.results
    /\ stage' = "returned"
    /\ UNCHANGED <<problem, util_block, incumbent, model_values, sret,
                   objective_sense, termination_condition, solveFrame>>

\* solve invokes the main loop when _prepare_for_solve returned no results
SolveGdp ==
    /\ stage = "prepared"
    /\ ~sret.results
    /\ stage' = "main_loop"
    /\ sret' = [sret EXCEPT !.solve_gdp = @ + 1]
    /\ UNCHANGED <<problem, util_block, incumbent, model_values,
                   objective_sense, termination_condition, solveFrame>>

\* update_incumbent, called by the main loop
UpdateIncumbent ==
    /\ stage = "main_loop"
    /\ \E v \in IncumbentValues :
          /\ incumbent # Just(v)
          /\ incumbent' = Just(v)
    /\ UNCHANGED <<stage, problem, util_block, model_values, sret,
                   objective_sense, termination_condition, solveFrame>>

\* the main loop returns, with some termination condition recorded
SolveGdpReturns ==
    /\ stage = "main_loop"
    /\ termination_condition' \in TerminationConditions
    /\ stage' = "finish"
    /\ UNCHANGED <<problem, util_block, incumbent, model_values, sret,
                   objective_sense, solveFrame>>

\* the rest of solve, up to its return
SolveAfterMainLoop ==
    /\ stage = "finish"
    /\ \E r \in {solve_after_main_loop(termination_condition, incumbent,
                                       model_values, util_block)} :
          /\ model_values' = r.model_values
          /\ util_block' = r.util_block
          /\ sret' = [sret EXCEPT !.transfer = r.transfer]
    /\ stage' = "returned"
    /\ UNCHANGED <<problem, incumbent, objective_sense,
                   termination_condition, solveFrame>>

NextSolve ==
    \/ PrepareForSolve
    \/ SolveReturnsResults
    \/ SolveGdp
    \/ UpdateIncumbent
    \/ SolveGdpReturns
    \/ SolveAfterMainLoop

SpecSolve == InitSolve /\ [][NextSolve]_vars

-----------------------------------------------------------------------------
(* Properties.                                                             *)

n_x == Len(input_vars)
n_y == Len(external_vars)
n_f == Len(residual_cons)

\* the four Jacobian blocks at the state self._nlp holds
jfx_now == extract_submatrix_jacobian(nlp, input_vars, residual_cons)
jfy_now == extract_submatrix_jacobian(nlp, external_vars, residual_cons)
jgx_now == extract_submatrix_jacobian(nlp, input_vars, external_cons)
jgy_now == extract_submatrix_jacobian(nlp, external_vars, external_cons)

\* the scenario f: x*y - 1 = 0, g: y - x = 0 resolved at x = 2
ScenarioAtTwo ==
    /\ Systems[sys] = Scenario
    /\ lastSet
    /\ xval = <<2>>
    /\ yval = <<2>>

EvaluateOps ==
    {"evaluate_equality_constraints",
     "evaluate_jacobian_equality_constraints",
     "evaluate_hessian_equality_constraints"}

\* C1: as long as no set_input_values has completed successfully since
\* construction, each of the three evaluate_* queries ends with an error.
C1_FailsBeforeFirstSet ==
    (~everSet /\ ret.op \in EvaluateOps) => ret.status = "error"

\* C2: a step in which the inner solve does not converge is a
\* set_input_values that ends with an error and leaves self._nlp as it was.
C2_DivergencePropagates ==
    [][ret'.solve = "failed" =>
          /\ ret'.op = "set_input_values"
          /\ ret'.status = "error"
          /\ nlp' = nlp]_vars

\* C2 witness: a set_input_values that changed the inputs has ended with the
\* error of the inner solve, and self._nlp holds other values than the variables
C2_Witness ==
    /\ ret.op = "set_input_values"
    /\ ret.solve = "failed"
    /\ ret.status = "error"
    /\ nlp.primals # xval \o yval
    /\ everSet

\* C3: after a successful set_input_values the Hessian query returns n_f
\* matrices, each n_x by n_x; in the scenario at x = 2 it returns [[[2]]].
C3_HessianOfResiduals ==
    (lastSet /\ ret.op = "evaluate_hessian_equality_constraints") =>
        /\ ret.status = "ok"
        /\ ret.kind = "matrices"
        /\ Len(ret.val) = n_f
        /\ \A m \in 1..Len(ret.val) :
              Rows(ret.val[m]) = n_x /\ Cols(ret.val[m]) = n_x
        /\ ScenarioAtTwo => ret.val = << << <<2 * ret.den>> >> >>

\* C4: n_equality_constraints() returns n_f in every state.
C4_CountOfResiduals ==
    ret.op = "n_equality_constraints" =>
        /\ ret.status = "ok"
        /\ ret.kind = "int"
        /\ ret.val = <<n_f>>

\* C5: a Jacobian query followed by a Hessian query performs exactly one
\* factorization of jgy in all.
C5_OneFactorization ==
    (ret.op = "evaluate_hessian_equality_constraints" /\ jacSplu > 0) =>
        jacSplu + ret.nsplu = 1

\* C6: every set_equality_constraint_multipliers ends with the not-implemented
\* error and leaves the input values, external values and self._nlp unchanged.
C6_MultipliersUnsupported ==
    [][ret'.op = "set_equality_constraint_multipliers" =>
          /\ ret'.status = "error"
          /\ ret'.error = "NotImplementedError"
          /\ UNCHANGED <<xval, yval, nlp>>]_vars

\* C6 witness: the call was made with an argument after a successful
\* set_input_values and has ended with the error
C6_Witness ==
    /\ ret.op = "set_equality_constraint_multipliers"
    /\ ret.status = "error"
    /\ Len(ret.arg) = 1
    /\ everSet

\* C7: a Jacobian query that returns, returns the n_f by n_x matrix
\* jfx + jfy*D where jgy*D = -jgx; in the scenario at x = 2 that is [[4]].
\* The value is ret.val / ret.den and D is DNum / ret.den.
C7_ImplicitJacobian ==
    (ret.op = "evaluate_jacobian_equality_constraints" /\ ret.status = "ok") =>
        LET DNum == Scale(-1, MatMul(Adj(jgy_now), jgx_now))
        IN  /\ ret.kind = "matrix"
            /\ ret.den # 0
            /\ Rows(ret.val) = n_f
            /\ \A i \in 1..Rows(ret.val) : Len(ret.val[i]) = n_x
            /\ Rows(DNum) = n_y
            /\ Cols(DNum) = n_x
            /\ MatMul(jgy_now, DNum) = Scale(-1 * ret.den, jgx_now)
            /\ ret.val = MatAdd(Scale(ret.den, jfx_now), MatMul(jfy_now, DNum))
            /\ ScenarioAtTwo => ret.val = << <<4 * ret.den>> >>

\* C7 witness: the Jacobian query has returned in the scenario at x = 2
C7_Witness ==
    /\ ret.op = "evaluate_jacobian_equality_constraints"
    /\ ret.status = "ok"
    /\ ScenarioAtTwo

\* C8: a Jacobian query at a state where jgy is exactly singular ends with
\* an error.
C8_SingularFails ==
    (ret.op = "evaluate_jacobian_equality_constraints" /\ Det(jgy_now) = 0) =>
        /\ ret.status = "error"
        /\ has_primals(nlp, input_vars) => ret.error = "RuntimeError"

\* C8 witness: the Jacobian query was made on two identical external
\* equations after a successful set_input_values
C8_Witness ==
    /\ ret.op = "evaluate_jacobian_equality_constraints"
    /\ Systems[sys] = IdenticalExternal
    /\ external_cons[1] = external_cons[2]
    /\ Det(jgy_now) = 0
    /\ ret.error = "RuntimeError"
    /\ lastSet

\* C9: after a successful set_input_values the residual query returns the
\* n_f values of the residual equations, in constructor order, at the values
\* the variables hold; in the scenario at x = 2 it returns [3].
C9_Residuals ==
    (ret.op = "evaluate_equality_constraints" /\ lastSet) =>
        /\ ret.status = "ok"
        /\ ret.kind = "vector"
        /\ Len(ret.val) = n_f
        /\ \A m \in 1..n_f :
              ret.val[m] = EqValue(residual_cons[m], xval \o yval)
        /\ ScenarioAtTwo => ret.val = <<3>>

\* C9 witness: the residual query has returned in the scenario at x = 2
C9_Witness ==
    /\ ret.op = "evaluate_equality_constraints"
    /\ ret.status = "ok"
    /\ ScenarioAtTwo

\* C10: when set_input_values(values) with len(values) = n_x has returned,
\* the i-th input variable holds values[i].
C10_PositionalAssignment ==
    (/\ ret.op = "set_input_values"
     /\ ret.status = "ok"
     /\ Len(ret.arg) = n_x) =>
        \A i \in 1..n_x : xval[i] = ret.arg[i]

\* C10 witness: a call with two different values has returned on an instance
\* with two input variables
C10_Witness ==
    /\ ret.op = "set_input_values"
    /\ ret.status = "ok"
    /\ n_x = 2
    /\ ret.arg = <<2, 1>>
    /\ xval = <<2, 1>>


\* every query that answers from self._nlp
DerivativeOps == EvaluateOps \cup {"evaluate_hessian_external_variables"}

\* C11: every evaluate_* result is computed from a self._nlp that was built
\* at or after the most recent set_input_values.
C11_NoStaleDerivatives ==
    (ret.op \in DerivativeOps /\ ret.status = "ok") => fresh

\* C12: every instance has as many external variables as external equations;
\* a construction with different numbers fails.
C12_SquareExternalSystem ==
    /\ constructed => n_y = Len(external_cons)
    /\ n_y # Len(external_cons) =>
          /\ ~constructed
          /\ ret.op = "__init__"
          /\ ret.status = "error"

\* C12 witness: a construction with two external variables and one external
\* equation has failed
C12_Witness ==
    /\ Systems[sys] = NonSquare
    /\ n_y = 2
    /\ Len(external_cons) = 1
    /\ ~constructed
    /\ ret.error = "AssertionError"

\* C13: evaluate_hessian_external_variables ends without a dimension error,
\* whatever n_x and n_y are, and what it returns is n_y matrices, each n_x by
\* n_x.
C13_HessianAnyShape ==
    ret.op = "evaluate_hessian_external_variables" =>
        /\ ret.error # "ValueError"
        /\ ret.status = "ok" =>
              /\ Len(ret.val) = n_y
              /\ \A k \in 1..Len(ret.val) :
                    Rows(ret.val[k]) = n_x /\ Cols(ret.val[k]) = n_x

ExternalEquationInputs ==
    UNION {identify_variables(external_cons[k]) : k \in 1..Len(external_cons)}
        \ {external_vars[i] : i \in 1..Len(external_vars)}

\* what a set_input_values(arg) leaves in the input variables
Assigned(arg, old, new) ==
    \A i \in 1..n_x : new[i] = IF i <= Len(arg) THEN arg[i] ELSE old[i]

\* C17: set_input_values reaches the inner solve only if the external
\* equations hold exactly n_x variables that are not external variables;
\* otherwise it fails with an assertion error before the solve, with the input
\* variables overwritten and self._nlp as it was.
C17_AssertionBeforeSolve ==
    [][ret'.op = "set_input_values" =>
          /\ ret'.solve # "none" => Cardinality(ExternalEquationInputs) = n_x
          /\ Cardinality(ExternalEquationInputs) # n_x =>
                /\ ret'.status = "error"
                /\ ret'.error = "AssertionError"
                /\ ret'.solve = "none"
                /\ Assigned(ret'.arg, xval, xval')
                /\ nlp' = nlp]_vars

\* C17 witness: an input variable occurs only in the residual equation, and a
\* set_input_values has failed the assertion with the inputs overwritten
C17_Witness ==
    /\ Systems[sys] = InputOnlyInResidual
    /\ Cardinality(ExternalEquationInputs) = 1
    /\ n_x = 2
    /\ ret.op = "set_input_values"
    /\ ret.error = "AssertionError"
    /\ xval = <<2, 2>>
    /\ nlp.primals # xval \o yval

\* C18 as stated: a set_input_values with fewer or more than n_x values raises
\* no length error, assigns by position what the list reaches, leaves the
\* other input variables as they were, and goes on to the inner solve.
C18_LengthIgnored ==
    [][(ret'.op = "set_input_values" /\ Len(ret'.arg) # n_x) =>
          /\ Assigned(ret'.arg, xval, xval')
          /\ ret'.error \in {"", "SolverError"}
          /\ ret'.solve # "none"]_vars

\* C18 amended: ... and goes on as a call with n_x values does: to the inner
\* solve if the external equations hold exactly n_x unfixed variables that are
\* not external variables, and to the assertion error otherwise.
C18_LengthIgnoredAsFullLength ==
    [][(ret'.op = "set_input_values" /\ Len(ret'.arg) # n_x) =>
          /\ Assigned(ret'.arg, xval, xval')
          /\ ret'.error \in {"", "SolverError", "AssertionError"}
          /\ ret'.solve # "none" <=> Cardinality(temp_input_vars) = n_x
          /\ ret'.solve = "none" <=> ret'.error = "AssertionError"]_vars

\* C18 witness: a call with one value on two input variables has returned;
\* the second input variable holds what it held before
C18_Witness ==
    /\ ret.op = "set_input_values"
    /\ n_x = 2
    /\ ret.arg = <<2>>
    /\ ret.solve = "converged"
    /\ ret.status = "ok"
    /\ xval = <<2, 1>>


\* the call of get_hessian_of_constraint has returned or raised
HessianCalled == hcall.op = "get_hessian_of_constraint"

\* C15: the private block of get_hessian_of_constraint holds two equations,
\* the real one and the dummy one; the multiplier is 1 at the index of the
\* real one and 0 at the index of the dummy one, whether the backend gives
\* the real one index 0 or index 1 (so that the block returned is that of
\* the real equation).
C15_MultiplierOnRealEquation ==
    HessianCalled =>
        /\ Len(hcall.block) = 2
        /\ Len(hcall.duals) = 2
        /\ \A k \in 1..2 :
              /\ hcall.block[k].name = "constraint" =>
                    /\ k = hcall.idx + 1
                    /\ hcall.block[k].expr = hcall.constraint
                    /\ hcall.duals[k] = 1
              /\ hcall.block[k].name = "_dummy_con" =>
                    /\ k # hcall.idx + 1
                    /\ hcall.duals[k] = 0
        /\ {hcall.block[k].name : k \in 1..2} = {"constraint", "_dummy_con"}
        /\ hcall.status = "ok" =>
              \A i \in 1..Len(hcall.rows) : \A j \in 1..Len(hcall.cols) :
                  hcall.val[i][j]
                      = EqHess(hcall.constraint, hcall.rows[i], hcall.cols[j])

\* C15 witness: the backend gave index 1 to the real equation, and the block
\* returned has a second derivative that is not zero
C15_Witness ==
    /\ HessianCalled
    /\ hcall.idx = 1
    /\ hcall.duals = <<0, 1>>
    /\ hcall.block[2].name = "constraint"
    /\ hcall.status = "ok"
    /\ \E i \in 1..Len(hcall.rows) : \E j \in 1..Len(hcall.cols) :
          hcall.val[i][j] # 0

\* the elements of a sequence
Range(s) == {s[k] : k \in 1..Len(s)}

\* C16 as stated: with neither wrt1 nor wrt2 given, the rows and the columns
\* of the block are all the variables of the expression of the equation,
\* fixed or not.
C16_DefaultsToAllVariables ==
    (HessianCalled /\ ~hcall.wrt1.given /\ ~hcall.wrt2.given) =>
        /\ Range(hcall.rows) = identify_variables(hcall.constraint)
        /\ Range(hcall.cols) = identify_variables(hcall.constraint)

\* C16 amended: with neither wrt1 nor wrt2 given, the rows and the columns of
\* the block are the variables of the expression of the equation that are not
\* fixed at the call.
C16_DefaultsToUnfixedVariables ==
    (HessianCalled /\ ~hcall.wrt1.given /\ ~hcall.wrt2.given) =>
        /\ Range(hcall.rows) = identify_variables(hcall.constraint) \ hcall.fixed
        /\ Range(hcall.cols) = identify_variables(hcall.constraint) \ hcall.fixed
        /\ Len(hcall.rows) = Cardinality(Range(hcall.rows))
        /\ hcall.cols = hcall.rows
        /\ hcall.status = "ok"

\* C16 witness: a call without wrt1 and wrt2 on an equation of two variables,
\* one of them fixed, has returned a block of one row and one column
C16_Witness ==
    /\ HessianCalled
    /\ ~hcall.wrt1.given
    /\ ~hcall.wrt2.given
    /\ Cardinality(identify_variables(hcall.constraint)) = 2
    /\ hcall.fixed \subseteq identify_variables(hcall.constraint)
    /\ hcall.fixed # {}
    /\ Len(hcall.rows) = 1
    /\ Len(hcall.val) = 1


\* the bound a primal value may change, and the other one, after a step
primal_bound_next == IF objective_sense = "minimize" THEN UB' ELSE LB'
dual_bound_next == IF objective_sense = "minimize" THEN LB' ELSE UB'

\* C19: over the calls of _update_bounds with force_update false, the sense
\* of the objective being fixed, LB never decreases and UB never increases;
\* a call with primal = None and dual = None changes neither; a primal value
\* changes the primal bound only (UB when minimizing, LB when maximizing) and
\* a dual value the other bound only.
C19_BoundsMonotone ==
    [][(gret'.updated /\ ~gret'.force_update) =>
          /\ objective_sense' = objective_sense
          /\ LB' >= LB
          /\ UB' <= UB
          /\ (~gret'.primal.given /\ ~gret'.dual.given) =>
                (LB' = LB /\ UB' = UB)
          /\ primal_bound_next # primal_bound =>
                (gret'.primal.given /\ primal_bound_next = gret'.primal.val)
          /\ dual_bound_next # dual_bound =>
                (gret'.dual.given /\ dual_bound_next = gret'.dual.val)]_vars

\* C19 witness: when maximizing, a call of _update_bounds with a primal and a
\* dual value and force_update false has raised LB and lowered UB
C19_Witness ==
    /\ gret.op = "_update_bounds"
    /\ ~gret.force_update
    /\ objective_sense = "maximize"
    /\ gret.primal.given
    /\ gret.dual.given
    /\ gret.oldLB # 0 - inf
    /\ gret.oldUB # inf
    /\ LB = gret.primal.val
    /\ LB > gret.oldLB
    /\ UB = gret.dual.val
    /\ UB < gret.oldUB

\* C20: a call of bounds_converged with the unbounded flag false,
\* LB + bound_tolerance > UB and the bounds not both +inf or both -inf ends
\* with LB = UB = the primal bound of before the call, the termination
\* condition optimal and the result True; the primal bound is as before.
C20_CrossedBoundsCollapse ==
    [][(/\ gret'.op = "bounds_converged"
        /\ ~unbounded
        /\ Plus(LB, gret'.tol) > UB
        /\ ~(LB = inf /\ UB = inf)
        /\ ~(LB = 0 - inf /\ UB = 0 - inf)) =>
          /\ LB' = primal_bound
          /\ UB' = primal_bound
          /\ primal_bound_next = primal_bound
          /\ termination_condition' = "optimal"
          /\ gret'.result = TRUE]_vars

\* C20 witness: when minimizing, bounds_converged found LB above UB, both
\* finite, and has lowered LB to UB
C20_Witness ==
    /\ gret.op = "bounds_converged"
    /\ objective_sense = "minimize"
    /\ ~unbounded
    /\ gret.oldLB \in Finite
    /\ gret.oldUB \in Finite
    /\ gret.oldLB > gret.oldUB
    /\ LB = gret.oldUB
    /\ UB = gret.oldUB
    /\ termination_condition = "optimal"
    /\ gret.result = TRUE


\* both bounds are +inf, or both are -inf
BothInfinite == (LB = inf /\ UB = inf) \/ (LB = 0 - inf /\ UB = 0 - inf)

\* C21: bounds_converged records the termination condition infeasible
\* exactly when the unbounded flag is false and LB = UB = +inf or
\* LB = UB = -inf; it then returns True and leaves LB and UB as they are.
\* So the bounds_converged that follows _update_dual_bound_to_infeasible,
\* when minimizing with UB still +inf, reports infeasible.
C21_InfeasibleAtInfiniteBounds ==
    [][gret'.op = "bounds_converged" =>
          /\ gret'.recorded = "infeasible" <=> (~unbounded /\ BothInfinite)
          /\ (~unbounded /\ BothInfinite) =>
                /\ termination_condition' = "infeasible"
                /\ gret'.result = TRUE
                /\ LB' = LB
                /\ UB' = UB
          /\ (/\ gret.op = "_update_dual_bound_to_infeasible"
              /\ objective_sense = "minimize"
              /\ UB = inf) =>
                /\ termination_condition' = "infeasible"
                /\ gret'.result = TRUE]_vars

\* C21 witness: when minimizing, _update_dual_bound_to_infeasible has raised
\* LB to +inf with UB at +inf, and bounds_converged has recorded infeasible
C21_Witness ==
    /\ gret.op = "bounds_converged"
    /\ objective_sense = "minimize"
    /\ ~unbounded
    /\ LB = inf
    /\ UB = inf
    /\ gret.recorded = "infeasible"
    /\ termination_condition = "infeasible"
    /\ gret.result = TRUE

\* C22: _update_primal_bound_to_unbounded sets the unbounded flag, and no
\* operation resets it; with the flag set, bounds_converged returns True,
\* records the termination condition unbounded and leaves LB and UB as they
\* are, whatever they are.
C22_UnboundedSticks ==
    [][/\ unbounded => unbounded'
       /\ gret'.op = "_update_primal_bound_to_unbounded" => unbounded'
       /\ (unbounded /\ gret'.op = "bounds_converged") =>
             /\ gret'.result = TRUE
             /\ gret'.recorded = "unbounded"
             /\ termination_condition' = "unbounded"
             /\ LB' = LB
             /\ UB' = UB]_vars

\* C22 witness: with the flag set and LB above UB, bounds_converged has
\* returned True with the termination condition unbounded
C22_Witness ==
    /\ gret.op = "bounds_converged"
    /\ unbounded
    /\ LB \in Finite
    /\ UB \in Finite
    /\ LB > UB
    /\ gret.result = TRUE
    /\ termination_condition = "unbounded"

\* C23: _update_bounds_after_master_problem_solve updates the dual bound
\* from the objective value for optimal only, sets it to the infeasible
\* value (+inf when minimizing, -inf when maximizing) for infeasible, leaves
\* the bounds for feasible and unbounded, and raises DeveloperError for
\* every other termination condition.
C23_MasterSolveByTermination ==
    gret.op = "_update_bounds_after_master_problem_solve" =>
        /\ (gret.updated /\ gret.dual.val \in Finite) =>
              gret.arg[1] = "optimal"
        /\ gret.arg[1] = "infeasible" =>
              dual_bound = IF objective_sense = "minimize" THEN inf
                           ELSE 0 - inf
        /\ gret.arg[1] \in {"feasible", "unbounded"} =>
              (LB = gret.oldLB /\ UB = gret.oldUB /\ gret.error = "")
        /\ gret.arg[1] \notin {"optimal", "infeasible", "feasible",
                               "unbounded"} =>
              gret.error = "DeveloperError"

\* the criteria of any_termination_criterion_met, before the call
BoundsHold(tol) == unbounded \/ Plus(LB, tol) >= UB
IterationLimitHolds(iterlim) == iteration >= iterlim
TimeLimitHolds(elapsed, time_limit) == elapsed >= time_limit

\* C24: any_termination_criterion_met returns True iff one of
\* bounds_converged, reached_iteration_limit (iteration >= iterlim) and
\* reached_time_limit (elapsed >= time_limit) holds; the termination
\* condition it records is that of the first that holds, in this order (never
\* maxIterations or maxTimeLimit when the bounds have converged); when none
\* holds the termination condition is left as it is.
C24_FirstCriterionRecorded ==
    [][gret'.op = "any_termination_criterion_met" =>
          /\ gret'.result <=>
                \/ BoundsHold(gret'.tol)
                \/ IterationLimitHolds(gret'.arg[1])
                \/ TimeLimitHolds(gret'.arg[2], gret'.arg[3])
          /\ BoundsHold(gret'.tol) =>
                termination_condition' \in {"unbounded", "infeasible",
                                            "optimal"}
          /\ (~BoundsHold(gret'.tol) /\ IterationLimitHolds(gret'.arg[1])) =>
                termination_condition' = "maxIterations"
          /\ (/\ ~BoundsHold(gret'.tol)
              /\ ~IterationLimitHolds(gret'.arg[1])
              /\ TimeLimitHolds(gret'.arg[2], gret'.arg[3])) =>
                termination_condition' = "maxTimeLimit"
          /\ (/\ ~BoundsHold(gret'.tol)
              /\ ~IterationLimitHolds(gret'.arg[1])
              /\ ~TimeLimitHolds(gret'.arg[2], gret'.arg[3])) =>
                /\ termination_condition' = termination_condition
                /\ gret'.recorded = "none"]_vars

\* C24 witness: the bounds have converged at finite values with the
\* iteration limit and the time limit reached as well, and the condition
\* recorded is optimal
C24_Witness ==
    /\ gret.op = "any_termination_criterion_met"
    /\ gret.result = TRUE
    /\ ~unbounded
    /\ LB \in Finite
    /\ LB = UB
    /\ iteration >= gret.arg[1]
    /\ gret.arg[2] >= gret.arg[3]
    /\ gret.recorded = "optimal"
    /\ termination_condition = "optimal"


\* C25: when solve returns for a model with discrete decisions, the main
\* loop has run, the incumbent has been transferred iff the termination
\* condition is neither infeasible nor unbounded, and the utility block
\* added by the preparation is gone either way; for a model with no binary
\* variables, no integer variables and no disjunctions the main loop is
\* never invoked and no utility block is ever added.
C25_TransferAndCleanUp ==
    /\ no_discrete_decisions(problem) =>
          /\ sret.solve_gdp = 0
          /\ ~sret.added
          /\ ~util_block
    /\ (stage = "returned" /\ ~no_discrete_decisions(problem)) =>
          /\ sret.added
          /\ sret.solve_gdp = 1
          /\ ~util_block
          /\ sret.transfer <=>
                termination_condition \notin {"infeasible", "unbounded"}
          /\ model_values =
                IF sret.transfer /\ incumbent.given THEN incumbent.val ELSE 0
    /\ (/\ stage \in {"prepared", "main_loop", "finish"}
        /\ ~no_discrete_decisions(problem)) =>
          (util_block /\ sret.added)

\* C25 witness: solve has returned for a model with a disjunction, with
\* the termination condition optimal, the incumbent on the original model
\* and the utility block removed
C25_Witness ==
    /\ stage = "returned"
    /\ problem.disjunctions > 0
    /\ termination_condition = "optimal"
    /\ sret.solve_gdp = 1
    /\ sret.added
    /\ sret.transfer
    /\ incumbent.given
    /\ model_values = incumbent.val
    /\ ~util_block

=============================================================================
